---- MODULE Spec2Model ----
(***************************************************************************)
(* AuraCode dispatch-and-cache layer.                                      *)
(*                                                                         *)
(*   AuraComm   (src/start-local.js:117-219)  dispatch, tryPost,           *)
(*                                            handleResponse               *)
(*   AuraRunner (src/unnamed/part_002:84-194) execute, hash, checkCache,   *)
(*                                            setCache, runPython,         *)
(*                                            dispatchBridge               *)
(*   AuraSystem (src/unnamed/part_002:7-82)   mount, initCacheDB           *)
(*                                                                         *)
(* JavaScript strings are sequences of tokens (a template literal is the   *)
(* concatenation of its pieces), so the empty string is <<>>.  Source      *)
(* texts are sequences of UTF-16 code units.                               *)
(***************************************************************************)
EXTENDS Integers, Sequences, FiniteSets, TLC

VARIABLES
    nodes,      \* AuraComm.nodes: engine name -> list of ports
    cacheDb,    \* AuraSystem.cache: "null" before mount, "open" after
    cache,      \* object store "execution_results": set of <<key, value>>
    pyodide,    \* AuraSystem.pyodide is loaded
    pc,         \* per call: where the call is suspended
    kind,       \* per call: "execute" or "dispatch" (entry point used)
    engine,     \* per call: engine / lang argument
    code,       \* per call: source text
    attempt,    \* per call: dispatch's attempt counter
    log,        \* per call: the network attempts issued, in order
    waits,      \* per call: the backoff delays waited, in order
    res,        \* per call: what AuraComm.dispatch resolved to
    thrown,     \* per call: the exception that left dispatch / execute
    delivered,  \* per call: the last result line printed to the terminal
    lookups,    \* per call: how the cache lookup ended
    put,        \* per call: how the cache store's put request ended
    caught,     \* per call: err.message of the attempt that just failed
    data,       \* normalizer harness: the parsed body handed in
    ret,        \* normalizer harness: what handleResponse returned
    npc,        \* normalizer harness: "ready" / "done"
    requests,   \* key harness: the (code, engine) pairs execute read
    keys        \* key harness: the codeHash execute computed for each

vars == <<nodes, cacheDb, cache, pyodide, pc, kind, engine, code, attempt,
          log, waits, res, thrown, delivered, lookups, put, caught, data, ret,
          npc, requests, keys>>

callVars == <<pc, kind, engine, code, attempt, log, waits, res, thrown,
              delivered, lookups, put, caught>>
sysVars == <<nodes, cacheDb, cache, pyodide>>
normVars == <<data, ret, npc>>
keyVars == <<requests, keys>>

-----------------------------------------------------------------------------
(* JavaScript values                                                       *)

V(t, n, s) == [t |-> t, n |-> n, s |-> s]

Absent == V("absent", 0, <<>>)      \* the key is not in the object
Undef == V("undefined", 0, <<>>)
Null == V("null", 0, <<>>)
NaN == V("nan", 0, <<>>)
True == V("true", 0, <<>>)
False == V("false", 0, <<>>)
Num(k) == V("number", k, <<>>)
Str(toks) == V("string", 0, toks)
Bool(b) == IF b THEN True ELSE False

\* Decimal numerals of the numbers the model uses.
Numeral == <<"0", "1", "2", "3", "4", "5", "6", "7", "8", "9", "10", "11", "12">>
NumeralOf(k) == Numeral[k + 1]
IsNumeral(tok) == \E k \in 0..(Len(Numeral) - 1) : NumeralOf(k) = tok
ValueOfNumeral(tok) == CHOOSE k \in 0..(Len(Numeral) - 1) : NumeralOf(k) = tok

\* ToBoolean
Truthy(v) ==
    CASE v.t \in {"undefined", "null", "nan", "false", "absent"} -> FALSE
      [] v.t = "number" -> v.n # 0
      [] v.t = "string" -> v.s # <<>>
      [] OTHER -> TRUE

\* Number(v): ToNumber
Number(v) ==
    CASE v.t = "number" -> v
      [] v.t = "null" -> Num(0)
      [] v.t = "false" -> Num(0)
      [] v.t = "true" -> Num(1)
      [] v.t = "string" ->
            IF v.s = <<>> THEN Num(0)
            ELSE IF Len(v.s) = 1 /\ IsNumeral(v.s[1])
                 THEN Num(ValueOfNumeral(v.s[1]))
                 ELSE NaN
      [] OTHER -> NaN

\* `${v}` and String(v), as tokens
StringOf(v) ==
    CASE v.t = "number" -> <<NumeralOf(v.n)>>
      [] v.t = "string" -> v.s
      [] OTHER -> <<v.t>>

\* a ?? b
Coalesce(a, b) == IF a.t \in {"undefined", "null"} THEN b ELSE a
\* a || b
Or(a, b) == IF Truthy(a) THEN a ELSE b

-----------------------------------------------------------------------------
(* Parsed response bodies (what resp.json() can resolve to)                *)

BodyFields == {"stdout", "exit_code", "latency_ms", "status", "error", "message"}

Body(type, stdout, exit_code, latency_ms, status, error, message) ==
    [type |-> type, stdout |-> stdout, exit_code |-> exit_code,
     latency_ms |-> latency_ms, status |-> status, error |-> error,
     message |-> message]

\* a JSON value that is no object: null, a number, a string, a boolean
Scalar(type) == Body(type, Absent, Absent, Absent, Absent, Absent, Absent)
\* an object none of whose keys the normalizer reads, such as { foo: 1 }
EmptyShape == Body("object", Absent, Absent, Absent, Absent, Absent, Absent)
NoBody == Scalar("none")

\* 'f' in data
In(f, d) == d[f] # Absent
\* data.f
Get(d, f) == IF d[f] = Absent THEN Undef ELSE d[f]
\* data && typeof data === 'object'   (arrays are objects, null is falsy)
IsObject(d) == d.type \in {"object", "array"}

(* Result records: { success, output, exit_code, latency_ms } or           *)
(* { success, error }; a key the literal does not write is Absent.         *)
Result(success, output, exit_code, latency_ms, error) ==
    [t |-> "object", success |-> success, output |-> output,
     exit_code |-> exit_code, latency_ms |-> latency_ms, error |-> error]
Failure(error) == Result(FALSE, Absent, Absent, Absent, error)
\* the function fell off its end: the caller receives undefined
Undefined == [t |-> "undefined", success |-> FALSE, output |-> Absent,
              exit_code |-> Absent, latency_ms |-> Absent, error |-> Absent]
NoResult == [t |-> "none", success |-> FALSE, output |-> Absent,
             exit_code |-> Absent, latency_ms |-> Absent, error |-> Absent]

UnknownNodeResponse == Str(<<"Unknown node response">>)

\* handleResponse with the legacy branch reading data.exit_code
handleResponseLegacyExit(d) ==
    IF IsObject(d)
    THEN IF In("stdout", d) /\ In("exit_code", d)
         THEN Result(Number(Get(d, "exit_code")) = Num(0), Get(d, "stdout"),
                     Get(d, "exit_code"),
                     Coalesce(Get(d, "latency_ms"), Num(0)), Absent)
         ELSE IF Get(d, "status") = Str(<<"success">>)
              THEN Result(TRUE, Get(d, "stdout"), Get(d, "exit_code"),
                          Coalesce(Get(d, "latency_ms"), Num(0)), Absent)
              ELSE Failure(Or(Or(Get(d, "error"), Get(d, "message")),
                              UnknownNodeResponse))
    ELSE Undefined

\* handleResponse probing the status field before the stdout/exit_code pair
handleResponseStatusFirst(d) ==
    IF IsObject(d)
    THEN IF Get(d, "status") = Str(<<"success">>)
         THEN Result(TRUE, Get(d, "stdout"), Num(0),
                     Coalesce(Get(d, "latency_ms"), Num(0)), Absent)
         ELSE IF In("stdout", d) /\ In("exit_code", d)
              THEN Result(Number(Get(d, "exit_code")) = Num(0), Get(d, "stdout"),
                          Get(d, "exit_code"),
                          Coalesce(Get(d, "latency_ms"), Num(0)), Absent)
              ELSE Failure(Or(Or(Get(d, "error"), Get(d, "message")),
                              UnknownNodeResponse))
    ELSE Undefined

\* AuraComm.handleResponse(data).  The catch branch (lines 214-217) runs only
\* if a statement of the try block throws, which no parsed JSON body causes.
handleResponse(d) ==
    IF IsObject(d)
    THEN IF In("stdout", d) /\ In("exit_code", d)
         THEN Result(Number(Get(d, "exit_code")) = Num(0), Get(d, "stdout"),
                     Get(d, "exit_code"),
                     Coalesce(Get(d, "latency_ms"), Num(0)), Absent)
         ELSE IF Get(d, "status") = Str(<<"success">>)
              THEN Result(TRUE, Get(d, "stdout"), Num(0),
                          Coalesce(Get(d, "latency_ms"), Num(0)), Absent)
              ELSE Failure(Or(Or(Get(d, "error"), Get(d, "message")),
                              UnknownNodeResponse))
    ELSE Undefined

-----------------------------------------------------------------------------
(* Bounds and input sets                                                   *)

MaxCalls == 2
Calls == 1..MaxCalls

\* The two invocations of execute that may overlap.
Pair == {1, 2}

\* Source texts: "p", " " (blank after trim), and the euro sign (U+20AC).
Codes == {<<112>>, <<32>>, <<8364>>}
\* Source texts whose keys are compared: "p", "c", "pc", "cpp", the euro sign,
\* U+FFFD, an unpaired high and an unpaired low surrogate, and a surrogate
\* pair (U+1F600).
KeySources ==
    {<<112>>, <<99>>, <<112, 99>>, <<99, 112, 112>>, <<8364>>, <<65533>>,
     <<55296>>, <<56320>>, <<55357, 56832>>}

\* Engine values the editor's selector can hold ("sql" has no runtime here).
UIEngines == {"javascript", "python", "cpp", "rust", "sql"}
\* lang arguments of a direct AuraComm.dispatch call: configured names, a
\* name that is not configured, and a name Object.prototype defines.
Langs == {"python", "cpp", "rust", "go", "constructor"}
InheritedNames == {"constructor"}
\* the arguments of two overlapping dispatch calls: "p" and the euro sign,
\* for python, a bridge engine, a name that is not configured and a name
\* Object.prototype defines
RaceCodes == {<<112>>, <<8364>>}
RaceLangs == {"python", "cpp", "go", "constructor"}

\* Bodies the endpoints answer with during dispatch.
DispatchBodies ==
    {Body("object", Str(<<"1">>), Num(0), Num(12), Absent, Absent, Absent),
     Body("object", Str(<<>>), Num(0), Absent, Absent, Absent, Absent),
     Body("object", Str(<<"1">>), Num(1), Num(12), Absent, Absent, Absent),
     Body("object", Absent, Absent, Absent, Absent, Str(<<"boom">>), Absent),
     EmptyShape,
     Scalar("null")}

-----------------------------------------------------------------------------
(* AuraComm.nodes and the constants of dispatch                            *)

PortsPerEngine == 10
CppBase == 56000
PythonBase == 55000
RustBase == 58000
PortList(base) == [i \in 1..PortsPerEngine |-> base + (i - 1)]

ShippedNodes ==
    [cpp |-> PortList(CppBase), python |-> PortList(PythonBase),
     rust |-> PortList(RustBase)]
\* The shipped table, and the table with one engine's list emptied.
NodeConfigs == {ShippedNodes, [ShippedNodes EXCEPT !.cpp = <<>>]}

BaseTimeout == 4000
TimeoutStep == 500
BackoffBase == 200
BackoffStep == 50

\* a timeout that does not grow with the attempt
AttemptTimeoutFlat(k) == BaseTimeout + TimeoutStep
\* a delay that doubles with every attempt
BackoffDelayDoubling(k) == BackoffBase * 2 ^ k
\* 4000 + attempt * 500
AttemptTimeout(k) == BaseTimeout + k * TimeoutStep
\* 200 + attempt * 50
BackoffDelay(k) == BackoffBase + k * BackoffStep

\* (lang === 'python') ? '/execute' : '/bridge'
PathOf(lang) == IF lang = "python" THEN "/execute" ELSE "/bridge"

\* a port list that drops its first port once some call has returned
PortsOfShared(lang) ==
    LET ports == IF lang \in DOMAIN nodes THEN nodes[lang] ELSE nodes.python
    IN  IF ports # <<>> /\ \E d \in Calls : pc[d] = "returned"
        THEN Tail(ports) ELSE ports
\* this.nodes[lang] || this.nodes.python, for a lang that names no inherited
\* property (an array, even an empty one, is truthy)
PortsOf(lang) == IF lang \in DOMAIN nodes THEN nodes[lang] ELSE nodes.python

\* btoa(source): defined on code units up to 0xFF, InvalidCharacterError above
Latin1(source) == \A i \in 1..Len(source) : source[i] <= 255
RECURSIVE Base64(_)
Base64(b) ==
    IF b = <<>> THEN <<>>
    ELSE IF Len(b) = 1
         THEN <<b[1] \div 4, (b[1] % 4) * 16, 64, 64>>
    ELSE IF Len(b) = 2
         THEN <<b[1] \div 4, (b[1] % 4) * 16 + (b[2] \div 16),
                (b[2] % 16) * 4, 64>>
    ELSE <<b[1] \div 4, (b[1] % 4) * 16 + (b[2] \div 16),
           (b[2] % 16) * 4 + (b[3] \div 64), b[3] % 64>>
         \o Base64(SubSeq(b, 4, Len(b)))
btoa(source) == Base64(source)

\* `http://localhost:${port}${path}` with its per-attempt timeout and the
\* payload's language and encoded source
Request(lang, source, k) ==
    [port |-> PortsOf(lang)[k], path |-> PathOf(lang),
     timeout |-> AttemptTimeout(k), language |-> lang,
     source |-> btoa(source)]

\* an exhausted failure that carries the message of a failed attempt
ExhaustedWithCause(lang) ==
    Failure(Str(<<"No available ", lang, " node ports", ": ", "Failed to fetch">>))
ExhaustedAnonymous(lang) == Failure(Str(<<"No available node ports">>))
\* `No available ${lang} node ports`
Exhausted(lang) == Failure(Str(<<"No available ", lang, " node ports">>))

\* err.message of the ways tryPost rejects
TransportErrors ==
    {<<"Failed to fetch">>,                    \* connection refused
     <<"The operation was aborted">>,          \* controller.abort() at timeout
     <<"HTTP ", "500">>,                       \* !resp.ok
     <<"Unexpected token">>}                   \* resp.json() rejects

InvalidCharacterError == Str(<<"InvalidCharacterError">>)
NotIterable == Str(<<"ports is not iterable">>)
NoError == Absent

-----------------------------------------------------------------------------
(* AuraRunner helpers                                                      *)

Whitespace == {9, 10, 13, 32}
RECURSIVE trimStart(_)
trimStart(s) ==
    IF s # <<>> /\ s[1] \in Whitespace THEN trimStart(Tail(s)) ELSE s
RECURSIVE trimEnd(_)
trimEnd(s) ==
    IF s # <<>> /\ s[Len(s)] \in Whitespace
    THEN trimEnd(SubSeq(s, 1, Len(s) - 1)) ELSE s
trim(s) == trimEnd(trimStart(s))

\* the code units of an engine name
EngineChars(e) ==
    CASE e = "javascript" -> <<106, 97, 118, 97, 115, 99, 114, 105, 112, 116>>
      [] e = "python" -> <<112, 121, 116, 104, 111, 110>>
      [] e = "cpp" -> <<99, 112, 112>>
      [] e = "rust" -> <<114, 117, 115, 116>>
      [] e = "sql" -> <<115, 113, 108>>
      [] e = "go" -> <<103, 111>>
      [] OTHER -> <<>>

\* new TextEncoder().encode(text): UTF-8 of the code units; a surrogate pair
\* is one code point, a surrogate without its partner becomes U+FFFD
HighSurrogate(u) == u >= 55296 /\ u <= 56319
LowSurrogate(u) == u >= 56320 /\ u <= 57343
Utf8(cp) ==
    IF cp < 128 THEN <<cp>>
    ELSE IF cp < 2048 THEN <<192 + (cp \div 64), 128 + (cp % 64)>>
    ELSE IF cp < 65536
         THEN <<224 + (cp \div 4096), 128 + ((cp \div 64) % 64), 128 + (cp % 64)>>
    ELSE <<240 + (cp \div 262144), 128 + ((cp \div 4096) % 64),
           128 + ((cp \div 64) % 64), 128 + (cp % 64)>>
ReplacementCharacter == 65533
RECURSIVE encode(_)
encode(text) ==
    IF text = <<>> THEN <<>>
    ELSE IF HighSurrogate(text[1]) /\ Len(text) >= 2 /\ LowSurrogate(text[2])
         THEN Utf8(65536 + (text[1] - 55296) * 1024 + (text[2] - 56320))
              \o encode(SubSeq(text, 3, Len(text)))
    ELSE IF HighSurrogate(text[1]) \/ LowSurrogate(text[1])
         THEN Utf8(ReplacementCharacter) \o encode(Tail(text))
    ELSE Utf8(text[1]) \o encode(Tail(text))

\* AuraRunner.hash(text): the SHA-256 digest of the encoded text, taken as
\* determined by and determining the bytes digested
hash(text) == <<"sha256", encode(text)>>
\* codeHash = await this.hash(code + engine)
codeHash(c, e) == hash(c \o EngineChars(e))

\* lang.toUpperCase()
toUpperCase(e) ==
    CASE e = "python" -> "PYTHON"
      [] e = "cpp" -> "CPP"
      [] e = "rust" -> "RUST"
      [] OTHER -> e

\* a terminal line: AuraTerminal.print(msg, type)
Line(msg, type) == [msg |-> msg, type |-> type]
NoLine == Line(<<>>, "none")

Stored(key) == \E e \in cache : e[1] = key
EntryOf(key) == (CHOOSE e \in cache : e[1] = key)[2]
\* a put that leaves nothing but its own entry in the store
PutAlone(key, value) == {<<key, value>>}
\* objectStore.put(value, key): the whole entry under key is replaced
Put(key, value) == {e \in cache : e[1] # key} \cup {<<key, value>>}

-----------------------------------------------------------------------------
(* Calls                                                                   *)

\* "done", "returned", "threw": the call has settled; "past" and "retired":
\* it settled (normally, or not) before a later call started.
Settled == {"done", "returned", "threw", "past", "retired"}

\* Calls are issued one after the other: a call starts when every earlier
\* one has settled.
CanStart(c) == pc[c] = "idle" /\ \A d \in Calls : d < c => pc[d] \in Settled

\* The locals of a settled call are gone once the next call starts.
Fresh(f, c, v, blank) ==
    [d \in Calls |-> IF d = c THEN v
                     ELSE IF pc[d] \in Settled THEN blank ELSE f[d]]

\* What is remembered of the call before c once c starts (its request and
\* the line it delivered); of the calls before that one nothing is.
Recent(f, c, v, blank) ==
    [d \in Calls |-> IF d = c THEN v
                     ELSE IF d + 1 < c THEN blank ELSE f[d]]

\* pc once call c starts: the call before it, if it ended normally, becomes
\* the past call; the other settled calls are retired.
Started(c, at) ==
    [d \in Calls |-> IF d = c THEN at
                     ELSE IF pc[d] = "done" /\ d + 1 = c THEN "past"
                     ELSE IF pc[d] \in Settled THEN "retired" ELSE pc[d]]

Resolved(r) == [rejected |-> FALSE, r |-> r, e |-> NoError]
Rejected(e) == [rejected |-> TRUE, r |-> NoResult, e |-> e]

\* res.output ?? res.stdout ?? ''   (no result record has a stdout key)
OutputOf(r) == Coalesce(Get(r, "output"), Str(<<>>))

\* `[${lang.toUpperCase()}] Fallback Execution simulated.`
Fallback(lang) == Str(<<"[", toUpperCase(lang), "] Fallback Execution simulated.">>)
\* `[${lang.toUpperCase()}] Exit:${exit} ${out}`
Summary(lang, r) ==
    Str(<<"[", toUpperCase(lang), "] Exit:">>
        \o StringOf(Coalesce(Get(r, "exit_code"), Num(0)))
        \o <<" ">> \o StringOf(OutputOf(r)))

\* AuraRunner.runPython from the point where dispatch has settled: what is
\* stored, what is printed last, and where the call goes on.
runPython(o) ==
    IF ~o.rejected /\ o.r.t = "object" /\ o.r.success
    THEN [pc |-> "done", stores |-> TRUE, value |-> OutputOf(o.r),
          line |-> Line(StringOf(OutputOf(o.r)), "success")]
    ELSE [pc |-> "pyodide", stores |-> FALSE, value |-> Undef, line |-> NoLine]

\* AuraRunner.dispatchBridge from the point where dispatch has settled.
dispatchBridge(lang, o) ==
    IF ~o.rejected /\ o.r.t = "object" /\ o.r.success
    THEN [pc |-> "done", stores |-> TRUE, value |-> Summary(lang, o.r),
          line |-> Line(Summary(lang, o.r).s \o <<" [">>
                        \o StringOf(Coalesce(Get(o.r, "latency_ms"), Num(0)))
                        \o <<"ms]">>, "success")]
    ELSE [pc |-> "done", stores |-> TRUE, value |-> Fallback(lang),
          line |-> Line(Fallback(lang).s, "success")]

\* AuraRunner.setCache(hash, result): the put request succeeds or fails; the
\* caller does not await it and sees neither.
setCache(c, key, value) ==
    \E ok \in BOOLEAN :
        /\ cache' = IF ok THEN Put(key, value) ELSE cache
        /\ put' = [put EXCEPT ![c] = IF ok THEN "ok" ELSE "failed"]

\* Settle where the store is awaited and its failure rejects the call
SettleStoreSurfaces(c, o) ==
    /\ res' = [res EXCEPT ![c] = o.r]
    /\ IF kind[c] = "dispatch"
       THEN /\ pc' = [pc EXCEPT ![c] = IF o.rejected THEN "threw" ELSE "returned"]
            /\ thrown' = [thrown EXCEPT ![c] = o.e]
            /\ UNCHANGED <<delivered, cache, put>>
       ELSE LET eff == IF engine[c] = "python" THEN runPython(o)
                       ELSE dispatchBridge(engine[c], o)
            IN  IF eff.stores
                THEN \E ok \in BOOLEAN :
                        /\ cache' = IF ok THEN Put(codeHash(code[c], engine[c]),
                                                   eff.value)
                                    ELSE cache
                        /\ put' = [put EXCEPT ![c] = IF ok THEN "ok" ELSE "failed"]
                        /\ pc' = [pc EXCEPT ![c] = IF ok THEN eff.pc ELSE "threw"]
                        /\ thrown' = [thrown EXCEPT ![c] =
                                         IF ok THEN @ ELSE Str(<<"put failed">>)]
                        /\ delivered' = [delivered EXCEPT ![c] =
                                            IF ok THEN eff.line ELSE @]
                ELSE /\ pc' = [pc EXCEPT ![c] = eff.pc]
                     /\ UNCHANGED <<delivered, cache, put, thrown>>

\* dispatch settles with outcome o and its caller goes on.
Settle(c, o) ==
    /\ res' = [res EXCEPT ![c] = o.r]
    /\ IF kind[c] = "dispatch"
       THEN /\ pc' = [pc EXCEPT ![c] = IF o.rejected THEN "threw" ELSE "returned"]
            /\ thrown' = [thrown EXCEPT ![c] = o.e]
            /\ UNCHANGED <<delivered, cache, put>>
       ELSE LET eff == IF engine[c] = "python" THEN runPython(o)
                       ELSE dispatchBridge(engine[c], o)
            IN  /\ pc' = [pc EXCEPT ![c] = eff.pc]
                /\ delivered' = [delivered EXCEPT ![c] =
                                    IF eff.line = NoLine THEN @ ELSE eff.line]
                /\ IF eff.stores
                   THEN setCache(c, codeHash(code[c], engine[c]), eff.value)
                   ELSE UNCHANGED <<cache, put>>
                /\ UNCHANGED thrown

\* AuraSystem.mount: initCacheDB's open request succeeds.
Mount ==
    /\ cacheDb = "null"
    /\ cacheDb' = "open"
    /\ UNCHANGED <<nodes, cache, pyodide, callVars, normVars, keyVars>>

\* AuraRunner.execute up to its first await.
Execute(c) ==
    /\ CanStart(c)
    /\ \E e \in UIEngines, src \in Codes :
        /\ kind' = Recent(kind, c, "execute", "none")
        /\ engine' = Recent(engine, c, e, "none")
        /\ code' = Recent(code, c, src, <<>>)
        /\ IF trim(src) = <<>>
           THEN /\ pc' = Started(c, "done")
                /\ delivered' = Recent(delivered, c,
                                    Line(<<"Buffer empty.">>, "error"), NoLine)
           ELSE /\ pc' = Started(c, "lookup")
                /\ delivered' = Recent(delivered, c, NoLine, NoLine)
    /\ attempt' = Fresh(attempt, c, 0, 0)
    /\ log' = Fresh(log, c, <<>>, <<>>)
    /\ waits' = Fresh(waits, c, <<>>, <<>>)
    /\ res' = Fresh(res, c, NoResult, NoResult)
    /\ caught' = Fresh(caught, c, NoError, NoError)
    /\ thrown' = Fresh(thrown, c, NoError, NoError)
    /\ lookups' = Fresh(lookups, c, "none", "none")
    /\ put' = Fresh(put, c, "none", "none")
    /\ UNCHANGED <<sysVars, normVars, keyVars>>

\* A caller invokes AuraComm.dispatch(lang, source) itself.
Dispatch(c) ==
    /\ CanStart(c)
    /\ \E lang \in Langs, src \in Codes :
        /\ engine' = Fresh(engine, c, lang, "none")
        /\ code' = Fresh(code, c, src, <<>>)
    /\ kind' = [kind EXCEPT ![c] = "dispatch"]
    /\ pc' = Started(c, "enter")
    /\ attempt' = Fresh(attempt, c, 0, 0)
    /\ log' = Fresh(log, c, <<>>, <<>>)
    /\ waits' = Fresh(waits, c, <<>>, <<>>)
    /\ res' = Fresh(res, c, NoResult, NoResult)
    /\ caught' = Fresh(caught, c, NoError, NoError)
    /\ thrown' = Fresh(thrown, c, NoError, NoError)
    /\ lookups' = Fresh(lookups, c, "none", "none")
    /\ put' = Fresh(put, c, "none", "none")
    /\ UNCHANGED <<delivered, sysVars, normVars, keyVars>>

\* A caller invokes AuraComm.dispatch while another call of it may be
\* suspended at an await.
DispatchConcurrent(c) ==
    /\ c \in Pair
    /\ pc[c] = "idle"
    /\ \E lang \in RaceLangs, src \in RaceCodes :
        /\ engine' = [engine EXCEPT ![c] = lang]
        /\ code' = [code EXCEPT ![c] = src]
    /\ kind' = [kind EXCEPT ![c] = "dispatch"]
    /\ pc' = [pc EXCEPT ![c] = "enter"]
    /\ UNCHANGED <<attempt, log, waits, res, caught, thrown, delivered, lookups,
                   put, sysVars, normVars, keyVars>>

\* execute after `await this.hash` and `await this.checkCache`: the hit
\* branch, or the switch on the engine.
checkCache(c) ==
    /\ pc[c] = "lookup"
    /\ IF cacheDb = "null"
       THEN \* AuraSystem.cache.transaction on null: the promise rejects and
            \* execute, which awaits it outside its try block, rejects too
            /\ pc' = [pc EXCEPT ![c] = "threw"]
            /\ thrown' = [thrown EXCEPT ![c] =
                             Str(<<"Cannot read properties of null">>)]
            /\ lookups' = [lookups EXCEPT ![c] = "threw"]
            /\ UNCHANGED delivered
       ELSE \E err \in BOOLEAN :
            LET key == codeHash(code[c], engine[c])
                cachedResult == IF err THEN Null
                                ELSE IF Stored(key) THEN EntryOf(key) ELSE Undef
            IN  /\ UNCHANGED thrown
                /\ IF Truthy(cachedResult)
                   THEN /\ pc' = [pc EXCEPT ![c] = "done"]
                        /\ lookups' = [lookups EXCEPT ![c] = "hit"]
                        /\ delivered' = [delivered EXCEPT ![c] =
                                Line(StringOf(cachedResult), "success")]
                   ELSE /\ lookups' = [lookups EXCEPT ![c] =
                                IF err THEN "error"
                                ELSE IF Stored(key) THEN "falsy" ELSE "absent"]
                        /\ IF engine[c] = "javascript"
                           THEN \* AuraSystem.worker.postMessage
                                /\ pc' = [pc EXCEPT ![c] = "done"]
                                /\ UNCHANGED delivered
                           ELSE IF engine[c] \in {"python", "cpp", "rust"}
                           THEN /\ pc' = [pc EXCEPT ![c] = "enter"]
                                /\ UNCHANGED delivered
                           ELSE /\ pc' = [pc EXCEPT ![c] = "done"]
                                /\ delivered' = [delivered EXCEPT ![c] =
                                        Line(<<"Runtime not found.">>, "error")]
    /\ UNCHANGED <<kind, engine, code, attempt, log, waits, res, put, caught,
                   sysVars, normVars, keyVars>>

\* execute is invoked while an earlier invocation may still be suspended at
\* an await (a second click on Run): nothing serializes the calls.  The
\* editor is not touched in between, so both read the same engine and code.
ExecuteConcurrent(c) ==
    /\ c \in Pair
    /\ pc[c] = "idle"
    /\ \E e \in UIEngines, src \in Codes :
        /\ \A d \in Pair : kind[d] = "execute" => (engine[d] = e /\ code[d] = src)
        /\ kind' = [kind EXCEPT ![c] = "execute"]
        /\ engine' = [engine EXCEPT ![c] = e]
        /\ code' = [code EXCEPT ![c] = src]
        /\ IF trim(src) = <<>>
           THEN /\ pc' = [pc EXCEPT ![c] = "done"]
                /\ delivered' = [delivered EXCEPT ![c] =
                                    Line(<<"Buffer empty.">>, "error")]
           ELSE /\ pc' = [pc EXCEPT ![c] = "lookup"]
                /\ UNCHANGED delivered
    /\ UNCHANGED <<attempt, log, waits, res, caught, thrown, lookups, put,
                   sysVars, normVars, keyVars>>

\* dispatch that, once an earlier call has settled, starts at the second port
dispatchFromSecond(c) ==
    /\ pc[c] = "enter"
    /\ IF ~Latin1(code[c])
       THEN /\ Settle(c, Rejected(InvalidCharacterError))
            /\ UNCHANGED <<attempt, log>>
       ELSE IF engine[c] \in InheritedNames
       THEN /\ Settle(c, Rejected(NotIterable))
            /\ UNCHANGED <<attempt, log>>
       ELSE IF PortsOf(engine[c]) = <<>>
       THEN /\ Settle(c, Resolved(Exhausted(engine[c])))
            /\ UNCHANGED <<attempt, log>>
       ELSE LET k == IF \E d \in Calls : d < c /\ pc[d] \in Settled THEN 2 ELSE 1
            IN  /\ attempt' = [attempt EXCEPT ![c] = k]
                /\ log' = [log EXCEPT ![c] =
                              <<[req |-> Request(engine[c], code[c], k),
                                 body |-> NoBody]>>]
                /\ pc' = [pc EXCEPT ![c] = "fetch"]
                /\ UNCHANGED <<res, thrown, delivered, cache, put>>
    /\ UNCHANGED <<kind, engine, code, waits, lookups, caught, nodes, cacheDb,
                   pyodide, normVars, keyVars>>

\* AuraComm.dispatch from its first line to the first fetch (lines 131-175).
dispatch(c) ==
    /\ pc[c] = "enter"
    /\ IF ~Latin1(code[c])
       THEN /\ Settle(c, Rejected(InvalidCharacterError))
            /\ UNCHANGED <<attempt, log>>
       ELSE IF engine[c] \in InheritedNames
       THEN /\ Settle(c, Rejected(NotIterable))
            /\ UNCHANGED <<attempt, log>>
       ELSE IF PortsOf(engine[c]) = <<>>
       THEN /\ Settle(c, Resolved(Exhausted(engine[c])))
            /\ UNCHANGED <<attempt, log>>
       ELSE /\ attempt' = [attempt EXCEPT ![c] = 1]
            /\ log' = [log EXCEPT ![c] =
                          <<[req |-> Request(engine[c], code[c], 1),
                             body |-> NoBody]>>]
            /\ pc' = [pc EXCEPT ![c] = "fetch"]
            /\ UNCHANGED <<res, thrown, delivered, cache, put>>
    /\ UNCHANGED <<kind, engine, code, waits, lookups, caught, nodes, cacheDb,
                   pyodide, normVars, keyVars>>

\* tryPost where a parsed body does not end the loop
tryPostContinues(c) ==
    /\ pc[c] = "fetch"
    /\ \/ \E m \in TransportErrors :
            /\ caught' = [caught EXCEPT ![c] = Str(m)]
            /\ UNCHANGED log
       \/ \E b \in DispatchBodies :
            /\ log' = [log EXCEPT ![c][Len(log[c])].body = b]
            /\ UNCHANGED caught
    /\ pc' = [pc EXCEPT ![c] = "backoff"]
    /\ UNCHANGED <<kind, engine, code, attempt, waits, lookups, res, thrown,
                   delivered, put, sysVars, normVars, keyVars>>

\* tryPost where a non-2xx answer ends the call with a failure built from it
tryPostHttpErrorReturns(c) ==
    /\ pc[c] = "fetch"
    /\ \/ \E m \in TransportErrors :
            /\ caught' = [caught EXCEPT ![c] = Str(m)]
            /\ IF m[1] = "HTTP "
               THEN /\ Settle(c, Resolved(Failure(Str(m))))
                    /\ UNCHANGED log
               ELSE /\ pc' = [pc EXCEPT ![c] = "backoff"]
                    /\ UNCHANGED <<log, res, thrown, delivered, cache, put>>
       \/ \E b \in DispatchBodies :
            /\ log' = [log EXCEPT ![c][Len(log[c])].body = b]
            /\ Settle(c, Resolved(handleResponse(b)))
            /\ UNCHANGED caught
       \/ /\ pc' = [pc EXCEPT ![c] = "hung"]
          /\ UNCHANGED <<log, res, thrown, delivered, cache, put, caught>>
    /\ UNCHANGED <<kind, engine, code, attempt, waits, lookups, nodes, cacheDb,
                   pyodide, normVars, keyVars>>

\* tryPost where a body normalized to a failure sends the loop on
tryPostRetriesFailures(c) ==
    /\ pc[c] = "fetch"
    /\ \/ \E m \in TransportErrors :
            /\ caught' = [caught EXCEPT ![c] = Str(m)]
            /\ pc' = [pc EXCEPT ![c] = "backoff"]
            /\ UNCHANGED <<log, res, thrown, delivered, cache, put>>
       \/ \E b \in DispatchBodies :
            /\ log' = [log EXCEPT ![c][Len(log[c])].body = b]
            /\ UNCHANGED caught
            /\ IF handleResponse(b).success
               THEN Settle(c, Resolved(handleResponse(b)))
               ELSE /\ pc' = [pc EXCEPT ![c] = "backoff"]
                    /\ UNCHANGED <<res, thrown, delivered, cache, put>>
       \/ /\ pc' = [pc EXCEPT ![c] = "hung"]
          /\ UNCHANGED <<log, res, thrown, delivered, cache, put, caught>>
    /\ UNCHANGED <<kind, engine, code, attempt, waits, lookups, nodes, cacheDb,
                   pyodide, normVars, keyVars>>

\* The attempt in flight ends: tryPost rejects, or resolves to a parsed body,
\* or the response stalls after its status line (the timer is cleared once
\* fetch resolves, line 159, so nothing ends resp.json()).
tryPost(c) ==
    /\ pc[c] = "fetch"
    /\ \/ \E m \in TransportErrors :
            /\ caught' = [caught EXCEPT ![c] = Str(m)]
            /\ pc' = [pc EXCEPT ![c] = "backoff"]
            /\ UNCHANGED <<log, res, thrown, delivered, cache, put>>
       \/ \E b \in DispatchBodies :
            /\ log' = [log EXCEPT ![c][Len(log[c])].body = b]
            /\ Settle(c, Resolved(handleResponse(b)))
            /\ UNCHANGED caught
       \/ /\ pc' = [pc EXCEPT ![c] = "hung"]
          /\ UNCHANGED <<log, res, thrown, delivered, cache, put, caught>>
    /\ UNCHANGED <<kind, engine, code, attempt, waits, lookups, nodes, cacheDb,
                   pyodide, normVars, keyVars>>

\* for (const port of ports): a port is left after `attempt` of them
MorePortsEarly(c) == attempt[c] + 1 < Len(PortsOf(engine[c]))
MorePorts(c) == attempt[c] < Len(PortsOf(engine[c]))

\* the loop going to the next port without the delay
backoffNoWait(c) ==
    /\ pc[c] = "backoff"
    /\ caught' = [caught EXCEPT ![c] = NoError]
    /\ IF MorePorts(c)
       THEN /\ attempt' = [attempt EXCEPT ![c] = @ + 1]
            /\ log' = [log EXCEPT ![c] =
                          Append(@, [req |-> Request(engine[c], code[c],
                                                     attempt[c] + 1),
                                     body |-> NoBody])]
            /\ pc' = [pc EXCEPT ![c] = "fetch"]
            /\ UNCHANGED <<res, thrown, delivered, cache, put>>
       ELSE /\ Settle(c, Resolved(Exhausted(engine[c])))
            /\ UNCHANGED <<attempt, log>>
    /\ UNCHANGED <<kind, engine, code, waits, lookups, nodes, cacheDb, pyodide,
                   normVars, keyVars>>

\* the loop where the last port's failure is not followed by the delay
backoffSkipsLast(c) ==
    /\ pc[c] = "backoff"
    /\ caught' = [caught EXCEPT ![c] = NoError]
    /\ IF MorePorts(c)
       THEN /\ waits' = [waits EXCEPT ![c] = Append(@, BackoffDelay(attempt[c]))]
            /\ attempt' = [attempt EXCEPT ![c] = @ + 1]
            /\ log' = [log EXCEPT ![c] =
                          Append(@, [req |-> Request(engine[c], code[c],
                                                     attempt[c] + 1),
                                     body |-> NoBody])]
            /\ pc' = [pc EXCEPT ![c] = "fetch"]
            /\ UNCHANGED <<res, thrown, delivered, cache, put>>
       ELSE /\ Settle(c, Resolved(Exhausted(engine[c])))
            /\ UNCHANGED <<attempt, log, waits>>
    /\ UNCHANGED <<kind, engine, code, lookups, nodes, cacheDb, pyodide,
                   normVars, keyVars>>

\* The delay after a failed attempt elapses: the loop goes to the next port,
\* or ends (lines 180-186).
backoff(c) ==
    /\ pc[c] = "backoff"
    /\ waits' = [waits EXCEPT ![c] = Append(@, BackoffDelay(attempt[c]))]
    /\ caught' = [caught EXCEPT ![c] = NoError]     \* err goes out of scope
    /\ IF MorePorts(c)
       THEN /\ attempt' = [attempt EXCEPT ![c] = @ + 1]
            /\ log' = [log EXCEPT ![c] =
                          Append(@, [req |-> Request(engine[c], code[c],
                                                     attempt[c] + 1),
                                     body |-> NoBody])]
            /\ pc' = [pc EXCEPT ![c] = "fetch"]
            /\ UNCHANGED <<res, thrown, delivered, cache, put>>
       ELSE /\ Settle(c, Resolved(Exhausted(engine[c])))
            /\ UNCHANGED <<attempt, log>>
    /\ UNCHANGED <<kind, engine, code, lookups, nodes, cacheDb, pyodide,
                   normVars, keyVars>>

\* What pyodide.runPythonAsync(code) resolves to.
PyValues == {Undef, Str(<<"1">>), Str(<<>>)}

\* `Thread Exception: ${e.message}` (execute's catch)
ThreadException(msg) == Line(<<"Thread Exception: ", msg>>, "error")

\* runPython's fallback (lines 156-165).
pyodideFallback(c) ==
    /\ pc[c] = "pyodide"
    /\ pc' = [pc EXCEPT ![c] = "done"]
    \* dispatch has returned and its locals are gone; res is kept
    /\ attempt' = [attempt EXCEPT ![c] = 0]
    /\ log' = [log EXCEPT ![c] = <<>>]
    /\ waits' = [waits EXCEPT ![c] = <<>>]
    /\ \/ /\ ~pyodide             \* loadPyodide() rejects
          /\ delivered' = [delivered EXCEPT ![c] = ThreadException("loadPyodide")]
          /\ UNCHANGED <<pyodide, cache, put>>
       \/ /\ ~pyodide             \* loadPackage("micropip") rejects
          /\ pyodide' = TRUE
          /\ delivered' = [delivered EXCEPT ![c] = ThreadException("loadPackage")]
          /\ UNCHANGED <<cache, put>>
       \/ /\ pyodide' = TRUE      \* the Python code raises
          /\ delivered' = [delivered EXCEPT ![c] = ThreadException("PythonError")]
          /\ UNCHANGED <<cache, put>>
       \/ \E result \in PyValues :
            LET output == IF result # Undef THEN Str(StringOf(result))
                          ELSE Str(<<"Done">>)
            IN  /\ pyodide' = TRUE
                /\ setCache(c, codeHash(code[c], engine[c]), output)
                /\ delivered' = [delivered EXCEPT ![c] = Line(output.s, "success")]
    /\ UNCHANGED <<kind, engine, code, res, thrown, lookups, caught, nodes,
                   cacheDb, normVars, keyVars>>

-----------------------------------------------------------------------------
(* The normalizer on its own                                               *)

Bodies ==
    {Body("object", so, ec, la, st, er, me) :
        so \in {Absent, Str(<<>>), Str(<<"1">>)},
        ec \in {Absent, Num(0), Num(1), Str(<<"0">>), Null},
        la \in {Absent, Num(12), Null},
        st \in {Absent, Str(<<"success">>), Str(<<"error">>)},
        er \in {Absent, Str(<<>>), Str(<<"boom">>)},
        me \in {Absent, Str(<<"msg">>)}}  \cup
    {Scalar(t) : t \in {"null", "number", "string", "boolean", "array"}}

Normalize ==
    /\ npc = "ready"
    /\ ret' = handleResponse(data)
    /\ npc' = "done"
    /\ UNCHANGED <<data, sysVars, callVars, keyVars>>

-----------------------------------------------------------------------------
(* The cache key on its own                                                *)

\* what execute reads from the editor: the code and the engine
Requests == [code : KeySources, engine : UIEngines]

\* codeHash = await this.hash(code + engine), for each of the two requests
Hash ==
    /\ requests # <<>> /\ keys = <<>>
    /\ keys' = [i \in 1..Len(requests) |->
                    codeHash(requests[i].code, requests[i].engine)]
    /\ UNCHANGED <<requests, sysVars, callVars, normVars>>

-----------------------------------------------------------------------------
(* Specifications                                                          *)

InitCalls ==
    /\ pc = [c \in Calls |-> "idle"]
    /\ kind = [c \in Calls |-> "none"]
    /\ engine = [c \in Calls |-> "none"]
    /\ code = [c \in Calls |-> <<>>]
    /\ attempt = [c \in Calls |-> 0]
    /\ log = [c \in Calls |-> <<>>]
    /\ waits = [c \in Calls |-> <<>>]
    /\ res = [c \in Calls |-> NoResult]
    /\ thrown = [c \in Calls |-> NoError]
    /\ delivered = [c \in Calls |-> NoLine]
    /\ lookups = [c \in Calls |-> "none"]
    /\ put = [c \in Calls |-> "none"]
    /\ caught = [c \in Calls |-> NoError]

InitSystem ==
    /\ nodes = ShippedNodes
    /\ cacheDb = "null"
    /\ cache = {}
    /\ pyodide = FALSE

NormOff == data = NoBody /\ ret = NoResult /\ npc = "off"
KeyOff == requests = <<>> /\ keys = <<>>

\* execute calls, one after the other
Init == InitSystem /\ InitCalls /\ NormOff /\ KeyOff
Next ==
    \/ Mount
    \/ \E c \in Calls : Execute(c)
    \/ \E c \in Calls : checkCache(c)
    \/ \E c \in Calls : dispatch(c)
    \/ \E c \in Calls : tryPost(c)
    \/ \E c \in Calls : backoff(c)
    \/ \E c \in Calls : pyodideFallback(c)
Spec == Init /\ [][Next]_vars

\* direct AuraComm.dispatch calls, one after the other
NextDispatch ==
    \/ \E c \in Calls : Dispatch(c)
    \/ \E c \in Calls : dispatch(c)
    \/ \E c \in Calls : tryPost(c)
    \/ \E c \in Calls : backoff(c)
InitDispatch ==
    /\ nodes \in NodeConfigs /\ cacheDb = "null" /\ cache = {} /\ pyodide = FALSE
    /\ InitCalls /\ NormOff /\ KeyOff
SpecDispatch == InitDispatch /\ [][NextDispatch]_vars
\* the same, where a continuation that can run does run: the event loop
\* resumes dispatch, the attempt in flight comes to one of its ends (the
\* abort timer ends it if nothing answers), and the backoff timer fires
SpecDispatchLive ==
    /\ SpecDispatch
    /\ \A c \in Calls :
          /\ WF_vars(dispatch(c))
          /\ WF_vars(tryPost(c))
          /\ WF_vars(backoff(c))

\* two dispatch calls in flight at once
NextDispatchRace ==
    \/ \E c \in Calls : DispatchConcurrent(c)
    \/ \E c \in Calls : dispatch(c)
    \/ \E c \in Calls : tryPost(c)
    \/ \E c \in Calls : backoff(c)
SpecDispatchRace == Init /\ [][NextDispatchRace]_vars

\* two execute calls in flight at once
NextRace ==
    \/ Mount
    \/ \E c \in Calls : ExecuteConcurrent(c)
    \/ \E c \in Calls : checkCache(c)
    \/ \E c \in Calls : dispatch(c)
    \/ \E c \in Calls : tryPost(c)
    \/ \E c \in Calls : backoff(c)
    \/ \E c \in Calls : pyodideFallback(c)
SpecRace == Init /\ [][NextRace]_vars

\* the keys of two requests
InitKey ==
    /\ InitSystem /\ InitCalls /\ NormOff
    /\ requests \in Requests \X Requests /\ keys = <<>>
SpecKey == InitKey /\ [][Hash]_vars

\* handleResponse applied to each body
InitNorm ==
    /\ InitSystem /\ InitCalls
    /\ data \in Bodies /\ ret = NoResult /\ npc = "ready"
    /\ KeyOff
SpecNorm == InitNorm /\ [][Normalize]_vars

-----------------------------------------------------------------------------
(* Properties of the facade (Spec)                                         *)

SameRequest(c, d) ==
    /\ kind[c] = "execute" /\ kind[d] = "execute"
    /\ engine[c] = engine[d] /\ code[c] = code[d]

\* C1: of two execute calls for the same (source, engine), run one after the
\* other, the second delivers to the caller the line the first delivered.
\* Stated for the case where the second call's lookup finds the entry the
\* first call stored (no storage failure in between).
C1_RepeatDeliversSame ==
    \A c, d \in Calls :
        (/\ c < d /\ SameRequest(c, d)
         /\ pc[c] = "past" /\ pc[d] = "done"
         /\ lookups[d] \in {"hit", "falsy"})
        => delivered[d] = delivered[c]

\* C2: an execute call whose lookup finds an entry stored under its key ends
\* at once with that entry, having issued no network attempt and not having
\* entered dispatch or the pyodide fallback.
C2_StoredEntryBypassesDispatch ==
    \A c \in Calls :
        (kind[c] = "execute" /\ lookups[c] \in {"hit", "falsy"})
        => /\ pc[c] = "done"
           /\ log[c] = <<>>
           /\ put[c] = "none"
           /\ delivered[c].type = "success"

\* the engines execute hands to AuraComm.dispatch
Dispatched == {"python", "cpp", "rust"}
Missed(c) == lookups[c] \in {"absent", "error"}
KeyOf(c) == codeHash(code[c], engine[c])
\* value is a rendering of result r: its output, or the exit/output summary,
\* when r succeeded; its error when r failed
Records(value, lang, r) ==
    IF r.success THEN value \in {OutputOf(r), Summary(lang, r)}
    ELSE value = r.error

\* C13: an execute call that missed the cache, went to the dispatcher and
\* got a result record back has, when it completes, issued a store under its
\* key, and the entry a successful store leaves is that result, be it a
\* success or a failure.
C13_StoresReturnedResult ==
    \A c \in Calls :
        (/\ kind[c] = "execute" /\ pc[c] = "done" /\ Missed(c)
         /\ engine[c] \in Dispatched /\ res[c].t = "object")
        => /\ put[c] # "none"
           /\ put[c] = "ok" =>
                 /\ Stored(KeyOf(c))
                 /\ Records(EntryOf(KeyOf(c)), engine[c], res[c])

\* the value call c handed to setCache
Written(c) ==
    IF engine[c] = "python" THEN Str(delivered[c].msg)
    ELSE dispatchBridge(engine[c], Resolved(res[c])).value

\* C14: when two overlapping execute calls for the same (source, engine)
\* have both missed the cache, both stored and both completed, they wrote
\* the same value, which is the entry under the key.
C14_ConcurrentStoresAgree ==
    \A c, d \in Pair :
        (/\ c # d /\ SameRequest(c, d)
         /\ Missed(c) /\ Missed(d)
         /\ pc[c] = "done" /\ pc[d] = "done"
         /\ put[c] = "ok" /\ put[d] = "ok")
        => /\ Written(c) = Written(d)
           /\ EntryOf(KeyOf(c)) = Written(c)

\* the keys execute can compute, and the values held under a key
Keys == {codeHash(src, e) : src \in Codes, e \in UIEngines}
EntriesOf(store, key) == {e[2] : e \in {x \in store : x[1] = key}}
\* call c's put request succeeds in this step
Stores(c) == put[c] = "none" /\ put'[c] = "ok"
\* call c's lookup is answered in this step
LooksUp(c) == pc[c] = "lookup" /\ pc'[c] # "lookup"

\* C15: in every step, the entry under a key changes only if a call whose key
\* it is stores in that step, and then the key holds exactly the value that
\* call wrote; the entries of all other keys, and every entry in a step that
\* answers a lookup, stay as they were.
C15_StoreFrame ==
    [][ /\ \A key \in Keys :
              EntriesOf(cache', key) # EntriesOf(cache, key) =>
                  \E c \in Calls :
                      /\ Stores(c) /\ KeyOf(c) = key
                      /\ EntriesOf(cache', key) = {Written(c)'}
        /\ \A e \in cache \cup cache' : e[1] \in Keys
        /\ (\E c \in Calls : LooksUp(c)) => cache' = cache
      ]_vars
\* a completed store with an entry of another key beside it
C15_Witness ==
    \E c \in Calls :
        /\ kind[c] = "execute" /\ pc[c] = "done" /\ put[c] = "ok"
        /\ EntriesOf(cache, KeyOf(c)) = {Written(c)}
        /\ \E e \in cache : e[1] # KeyOf(c)

\* C16: the lookup of every execute call is answered, and when the storage
\* layer fails (the store is not open, or the read request errors) the call
\* takes it as a miss and goes on to its engine: it never ends in an
\* exception.
C16_LookupFailureIsMiss ==
    \A c \in Calls :
        (kind[c] = "execute" /\ lookups[c] # "none") =>
            /\ lookups[c] \in {"hit", "falsy", "absent", "error"}
            /\ pc[c] # "threw"

\* C17: an execute call whose put request failed has completed without an
\* exception and delivered a success line; when the dispatcher returned a
\* success, the line is the dispatcher's output (python) or the summary of
\* exit code, output and latency (cpp, rust).
C17_StoreFailureNotSurfaced ==
    \A c \in Calls :
        (kind[c] = "execute" /\ put[c] = "failed") =>
            /\ pc[c] = "done"
            /\ thrown[c] = NoError
            /\ delivered[c].type = "success"
            /\ (res[c].t = "object" /\ res[c].success) =>
                  delivered[c].msg =
                      IF engine[c] = "python" THEN StringOf(res[c].output)
                      ELSE <<"[", toUpperCase(engine[c]), "] Exit:">>
                           \o StringOf(res[c].exit_code) \o <<" ">>
                           \o StringOf(res[c].output) \o <<" [">>
                           \o StringOf(res[c].latency_ms) \o <<"ms]">>
C17_Witness ==
    \E c \in Calls :
        /\ kind[c] = "execute" /\ put[c] = "failed" /\ pc[c] = "done"
        /\ res[c].t = "object" /\ res[c].success
        /\ delivered[c].type = "success"
        /\ ~Stored(KeyOf(c))

\* the last attempt of call c obtained a body, the earlier ones none
FirstAnswerIsLast(c) ==
    /\ log[c] # <<>>
    /\ log[c][Len(log[c])].body # NoBody
    /\ \A i \in 1..(Len(log[c]) - 1) : log[c][i].body = NoBody

\* C19: an execute call whose k-th candidate is the first to answer has made
\* exactly k attempts, on candidates 1..k in order, and its dispatch returned
\* the normalization of that body; and a repeat of a python request whose
\* earlier call delivered a result, finding the entry stored under the key,
\* makes no network attempt and delivers the same line.
C19_KthAnswerThenCached ==
    /\ \A c \in Calls :
          (kind[c] = "execute" /\ FirstAnswerIsLast(c)) =>
              /\ attempt[c] = Len(log[c])
              /\ \A i \in 1..Len(log[c]) :
                    log[c][i].req.port = nodes[engine[c]][i]
              /\ res[c] = handleResponse(log[c][Len(log[c])].body)
    /\ \A c, d \in Calls :
          (/\ c < d /\ SameRequest(c, d) /\ engine[c] = "python"
           /\ pc[c] = "past" /\ delivered[c].type = "success"
           /\ lookups[d] \in {"hit", "falsy"})
          => /\ log[d] = <<>> /\ attempt[d] = 0
             /\ pc[d] = "done"
             /\ delivered[d] = delivered[c]

\* call c delivered the empty string as its output
DeliveredEmpty(c) == delivered[c] = Line(<<>>, "success")

\* C31: when an execute call has delivered the empty string as its output and
\* stored it, a repeat of the same (source, engine) whose lookup finds that
\* entry is answered from the cache: it completes with the empty output
\* delivered again, and has made no network attempt.
C31_EmptyEntryIsHit ==
    \A c, d \in Calls :
        (/\ c < d /\ SameRequest(c, d)
         /\ pc[c] = "past" /\ DeliveredEmpty(c)
         /\ lookups[d] = "falsy")
        => /\ pc[d] = "done"
           /\ log[d] = <<>> /\ attempt[d] = 0
           /\ DeliveredEmpty(d)

-----------------------------------------------------------------------------
(* Properties of dispatch (SpecDispatch)                                   *)

Answered(c, i) == log[c][i].body # NoBody
InLoop(c) == pc[c] \in {"fetch", "backoff"}

\* C3: the attempt that obtained a parsed body is the last attempt of its
\* call and the call is out of the probe loop; when it is the first
\* candidate that answered, the attempt counter is exactly 1.
C3_FirstSuccessWins ==
    \A c \in Calls :
        \A i \in 1..Len(log[c]) :
            Answered(c, i) =>
                /\ i = Len(log[c])
                /\ attempt[c] = i
                /\ ~InLoop(c)
C3_Witness ==
    \E c \in Calls :
        /\ pc[c] = "returned" /\ Len(log[c]) = 1 /\ Answered(c, 1)
        /\ attempt[c] = 1

NoneAnswered(c) == \A i \in 1..Len(log[c]) : ~Answered(c, i)

\* C4: a dispatch that returns with no candidate having answered returns
\* the exhausted failure after exactly one attempt per configured port, in
\* list order, each with a timeout of at least the base timeout.
C4_ExhaustedAfterAllPorts ==
    \A c \in Calls :
        (pc[c] = "returned" /\ NoneAnswered(c)) =>
            /\ res[c].success = FALSE
            /\ res[c].error = Str(<<"No available ", engine[c], " node ports">>)
            /\ Len(log[c]) = Len(PortsOf(engine[c]))
            /\ attempt[c] = Len(PortsOf(engine[c]))
            /\ \A i \in 1..Len(log[c]) :
                  /\ log[c][i].req.port = PortsOf(engine[c])[i]
                  /\ log[c][i].req.timeout >= BaseTimeout
C4_Witness ==
    \E c \in Calls :
        /\ pc[c] = "returned" /\ NoneAnswered(c)
        /\ Len(log[c]) = PortsPerEngine
        /\ res[c].error = Str(<<"No available ", engine[c], " node ports">>)

EmptyList(c) == pc[c] = "returned" /\ PortsOf(engine[c]) = <<>>

C6_DispatchNeverThrows ==
    \A c \in Calls :
        kind[c] = "dispatch" =>
            /\ pc[c] # "threw"
            /\ pc[c] = "returned" =>
                  /\ res[c].t = "object"
                  /\ ~res[c].success => res[c].error # Absent

Unconfigured(c) == kind[c] = "dispatch" /\ engine[c] \notin DOMAIN nodes

\* C18: a dispatch call for an engine name that the nodes table does not
\* have, with an encodable source, does not end in an exception, and every
\* attempt it makes goes to python's port of the same rank with python's
\* request path.
C18_UnknownEngineProbesPython ==
    \A c \in Calls :
        (Unconfigured(c) /\ Latin1(code[c])) =>
            /\ pc[c] # "threw"
            /\ \A i \in 1..Len(log[c]) :
                  /\ log[c][i].req.port = nodes.python[i]
                  /\ log[c][i].req.path = PathOf("python")

\* a dispatch call that has entered its probe loop
Probing(c) == kind[c] = "dispatch" /\ log[c] # <<>>
\* an earlier call has come and gone
AfterEarlierCall(c) == \E d \in Calls : d < c /\ pc[d] = "retired"

\* C21: whatever calls came before, the i-th attempt of a dispatch call goes
\* to the i-th port of the engine's list, the first attempt is numbered 1,
\* and the attempt counter equals the number of attempts issued: no port is
\* skipped.
C21_ProbesFromFirst ==
    \A c \in Calls :
        Probing(c) =>
            /\ attempt[c] = Len(log[c])
            /\ Len(log[c]) <= Len(PortsOf(engine[c]))
            /\ \A i \in 1..Len(log[c]) :
                  /\ log[c][i].req.port = PortsOf(engine[c])[i]
                  /\ log[c][i].req.timeout = BaseTimeout + i * TimeoutStep
C21_Witness ==
    \E c \in Calls :
        /\ Probing(c) /\ AfterEarlierCall(c)
        /\ pc[c] = "fetch" /\ attempt[c] = 1
        /\ log[c][1].req.port = PortsOf(engine[c])[1]

\* C22: one attempt at a time: while a dispatch call is in its loop, every
\* attempt but the last has failed and has been followed by its backoff
\* delay; the last attempt is the only one that can be in flight.
C22_OneAttemptInFlight ==
    \A c \in Calls :
        (Probing(c) /\ pc[c] \in {"fetch", "backoff", "hung"}) =>
            /\ Len(waits[c]) = Len(log[c]) - 1
            /\ \A i \in 1..(Len(log[c]) - 1) :
                  /\ log[c][i].body = NoBody
                  /\ waits[c][i] = BackoffBase + i * BackoffStep
C22_Witness ==
    \E c \in Calls :
        /\ Probing(c) /\ pc[c] = "fetch"
        /\ Len(log[c]) = 3 /\ Len(waits[c]) = 2

\* C23: the timeout of the k-th attempt is 4000 + 500 * k: consecutive
\* attempts differ by the increment and the timeout strictly increases.
C23_LinearTimeout ==
    \A c \in Calls :
        Probing(c) =>
            \A i \in 1..Len(log[c]) :
                /\ log[c][i].req.timeout = BaseTimeout + TimeoutStep * i
                /\ i > 1 => /\ log[c][i].req.timeout
                                  - log[c][i - 1].req.timeout = TimeoutStep
                            /\ log[c][i].req.timeout > log[c][i - 1].req.timeout
C23_Witness ==
    \E c \in Calls :
        /\ Probing(c) /\ Len(log[c]) = PortsPerEngine
        /\ log[c][1].req.timeout = 4500
        /\ log[c][PortsPerEngine].req.timeout = 9000

Aborted == Str(<<"The operation was aborted">>)

\* C25: no attempt outlives its timeout: a dispatch call is never left
\* waiting on a response that has stalled, and an attempt ended by the abort
\* leaves the call in its loop, waiting the backoff delay, with no result.
C25_AttemptEndsAtTimeout ==
    \A c \in Calls :
        kind[c] = "dispatch" =>
            /\ pc[c] # "hung"
            /\ caught[c] = Aborted => (pc[c] = "backoff" /\ res[c] = NoResult)

\* C26: a dispatch call that has been entered returns, and it never makes
\* more attempts than the engine's list has ports.
C26_EventuallyReturns ==
    \A c \in Calls :
        /\ [](attempt[c] <= Len(PortsOf(engine[c])))
        /\ (pc[c] = "enter") ~> (pc[c] = "returned")

\* every candidate of call c was tried and failed
AllFailed(c) ==
    /\ kind[c] = "dispatch" /\ pc[c] = "returned"
    /\ log[c] # <<>> /\ NoneAnswered(c)
Tokens(v) == {v.s[i] : i \in 1..Len(v.s)}
AttemptMessages == UNION {{m[i] : i \in 1..Len(m)} : m \in TransportErrors}

\* C27 as claimed: when every candidate failed, the error of the result
\* names the engine and the number of endpoints tried, and holds no
\* per-attempt message.
C27_NamesEngineAndCount ==
    \A c \in Calls :
        AllFailed(c) =>
            /\ res[c].success = FALSE
            /\ engine[c] \in Tokens(res[c].error)
            /\ NumeralOf(Len(log[c])) \in Tokens(res[c].error)
            /\ Tokens(res[c].error) \cap AttemptMessages = {}
\* C27 as the code has it: when every candidate failed, the one result
\* returned is a failure whose error is `No available <lang> node ports`: it
\* names the engine, holds no number and no per-attempt message.
C27_NamesEngineOnly ==
    \A c \in Calls :
        AllFailed(c) =>
            /\ res[c].t = "object" /\ res[c].success = FALSE
            /\ res[c].output = Absent
            /\ res[c].error.t = "string"
            /\ Len(res[c].error.s) = 3 /\ res[c].error.s[2] = engine[c]
            /\ \A tok \in Tokens(res[c].error) : ~IsNumeral(tok)
            /\ Tokens(res[c].error) \cap AttemptMessages = {}
C27_Witness ==
    \E c \in Calls :
        /\ AllFailed(c) /\ engine[c] = "rust"
        /\ Len(log[c]) = PortsPerEngine /\ Len(waits[c]) = PortsPerEngine
        /\ res[c].error.s = <<"No available ", "rust", " node ports">>

\* err.message of a non-2xx answer, of an unparsable body, of a refusal
HttpError == Str(<<"HTTP ", "500">>)
ParseError == Str(<<"Unexpected token">>)
Refused == Str(<<"Failed to fetch">>)
\* what a failed attempt leaves of call c, the message aside
AfterFailure(c) ==
    /\ pc[c] = "backoff" /\ res[c] = NoResult /\ thrown[c] = NoError
    /\ log[c][Len(log[c])].body = NoBody
\* call c leaves the delay after a failed attempt
LeavesBackoff(c) == pc[c] = "backoff" /\ pc'[c] # "backoff"

\* C28: an attempt answered with a non-2xx status or an unparsable body
\* leaves the call where a refused connection leaves it: in its loop, with
\* no result and no body taken from the answer; and a call leaving the delay
\* after a failed attempt issues the next attempt when a port is left,
\* returning the exhausted failure only when none is.
C28_BadAnswerIsTransportFailure ==
    /\ [](\A c \in Calls :
            (kind[c] = "dispatch" /\ caught[c] \in {HttpError, ParseError, Refused})
            => AfterFailure(c))
    /\ [][\A c \in Calls :
            (kind[c] = "dispatch" /\ LeavesBackoff(c)) =>
                IF attempt[c] < Len(PortsOf(engine[c]))
                THEN /\ pc'[c] = "fetch" /\ res'[c] = NoResult
                     /\ attempt'[c] = attempt[c] + 1
                     /\ Len(log'[c]) = Len(log[c]) + 1
                ELSE /\ pc'[c] = "returned"
                     /\ res'[c] = Exhausted(engine[c])
                     /\ log'[c] = log[c]
       ]_vars
C28_Witness ==
    \E c \in Calls :
        /\ kind[c] = "dispatch" /\ pc[c] = "backoff"
        /\ caught[c] = HttpError /\ attempt[c] = 2
        /\ Len(log[c]) = 2 /\ res[c] = NoResult

\* the body of attempt i was normalized to a failed result
AnsweredFailure(c, i) ==
    /\ Answered(c, i)
    /\ handleResponse(log[c][i].body).t = "object"
    /\ ~handleResponse(log[c][i].body).success

\* C29: a dispatch call one of whose attempts was answered with a body that
\* is normalized to a failure has returned exactly that failure; the attempt
\* is its last one and no delay follows it.
C29_FailureBodyIsTerminal ==
    \A c \in Calls :
        kind[c] = "dispatch" =>
            \A i \in 1..Len(log[c]) :
                AnsweredFailure(c, i) =>
                    /\ pc[c] = "returned"
                    /\ res[c] = handleResponse(log[c][i].body)
                    /\ res[c].success = FALSE
                    /\ i = Len(log[c]) /\ attempt[c] = i
                    /\ Len(waits[c]) = i - 1
C29_Witness ==
    \E c \in Calls :
        /\ kind[c] = "dispatch" /\ pc[c] = "returned"
        /\ Len(log[c]) = 2 /\ AnsweredFailure(c, 2)
        /\ res[c].error = Str(<<"boom">>)
        /\ Len(PortsOf(engine[c])) = PortsPerEngine

\* the ports configured for call c's engine (python's when it has none)
ListOf(c) ==
    IF engine[c] \in DOMAIN nodes THEN nodes[engine[c]] ELSE nodes.python
\* the locals of call c's dispatch
LocalsOf(c) == <<attempt[c], log[c], waits[c], res[c], caught[c], thrown[c]>>
\* a step of call c
StepOf(c) == pc'[c] # pc[c]

\* C30: with two dispatch calls in flight, no step changes the nodes table
\* (nor the store or the pyodide handle); a step of one call leaves the
\* other's counter, attempts, delays and result as they were; and each call
\* probes the ports of its engine's list in order, attempt i on port i.
C30_CallsDoNotInterfere ==
    /\ [][/\ nodes' = nodes /\ cache' = cache
          /\ cacheDb' = cacheDb /\ pyodide' = pyodide
          /\ \A c, d \in Calls :
                (StepOf(c) /\ d # c) => (LocalsOf(d))' = LocalsOf(d)
       ]_vars
    /\ [](\A c \in Calls :
            Probing(c) =>
                /\ attempt[c] = Len(log[c])
                /\ \A i \in 1..Len(log[c]) :
                      /\ log[c][i].req.port = ListOf(c)[i]
                      /\ log[c][i].req.timeout = BaseTimeout + i * TimeoutStep
                /\ \A i \in 1..Len(waits[c]) :
                      waits[c][i] = BackoffBase + i * BackoffStep)
\* both calls are in their loops, on different attempts of the same list
C30_Witness ==
    \E c, d \in Pair :
        /\ c # d /\ engine[c] = engine[d]
        /\ pc[c] = "fetch" /\ pc[d] = "backoff"
        /\ attempt[c] = 3 /\ attempt[d] = 1
        /\ log[c][3].req.port = ListOf(c)[3]
        /\ log[d][1].req.port = ListOf(d)[1]

\* C32: every failed attempt of a dispatch call, the one on the last port
\* included, is followed by its backoff delay before the call goes on: an
\* attempt in flight has one delay behind it per earlier attempt, and a call
\* that returns with no port having answered has tried all N ports and
\* waited N delays, the k-th of 200 + 50 * k.
C32_BackoffAfterEveryFailure ==
    \A c \in Calls :
        kind[c] = "dispatch" =>
            /\ pc[c] \in {"fetch", "backoff"} =>
                  Len(waits[c]) = Len(log[c]) - 1
            /\ (pc[c] = "returned" /\ NoneAnswered(c)) =>
                  /\ Len(log[c]) = Len(PortsOf(engine[c]))
                  /\ Len(waits[c]) = Len(PortsOf(engine[c]))
                  /\ \A i \in 1..Len(waits[c]) :
                        waits[c][i] = BackoffBase + BackoffStep * i
\* all ten ports failed and the tenth delay, 700 ms, was waited before the
\* exhausted failure was returned
C32_Witness ==
    \E c \in Calls :
        /\ kind[c] = "dispatch" /\ pc[c] = "returned" /\ NoneAnswered(c)
        /\ res[c] = Exhausted(engine[c])
        /\ Len(log[c]) = PortsPerEngine
        /\ Len(waits[c]) = PortsPerEngine
        /\ waits[c][PortsPerEngine] = 700

-----------------------------------------------------------------------------
(* Properties of the normalizer (SpecNorm)                                 *)

ShapeA(d) == IsObject(d) /\ In("stdout", d) /\ In("exit_code", d)
ShapeB(d) == IsObject(d) /\ ~ShapeA(d) /\ d.status = Str(<<"success">>)
ShapeC(d) ==
    IsObject(d) /\ ~ShapeA(d) /\ ~ShapeB(d) /\ (In("error", d) \/ In("message", d))
Unrecognized(d) == ~ShapeA(d) /\ ~ShapeB(d) /\ ~ShapeC(d)

\* C7: handleResponse returns a result record for every body, and for a body
\* of no known shape (an object without the keys, or no object at all) the
\* record is the failure `Unknown node response`.
C7_NormalizerTotal ==
    npc = "done" =>
        /\ ret.t = "object"
        /\ Unrecognized(data) =>
              ret.success = FALSE /\ ret.error = UnknownNodeResponse

\* an exit code that is zero: the number 0, or its numeral
IsZero(v) == v = Num(0) \/ v = Str(<<"0">>)
HasNone(v) == v \in {Absent, Null}

\* C8: for a body with both stdout and exit_code the result succeeds exactly
\* when the exit code is zero, carries the body's stdout and exit code, and
\* its latency is the body's, or 0 when the body has none.
C8_ShapeA ==
    (npc = "done" /\ ShapeA(data)) =>
        /\ ret.t = "object"
        /\ ret.success = IsZero(data.exit_code)
        /\ ret.output = data.stdout
        /\ ret.exit_code = data.exit_code
        /\ ret.latency_ms = IF HasNone(data.latency_ms) THEN Num(0)
                            ELSE data.latency_ms

C10_ErrorVerbatim ==
    (npc = "done" /\ ShapeC(data)) =>
        /\ ret.t = "object"
        /\ ret.success = FALSE
        /\ ret.error = IF In("error", data) THEN data.error ELSE data.message

\* the shapes a body matches, one not excluding another
MatchesA(d) == IsObject(d) /\ In("stdout", d) /\ In("exit_code", d)
MatchesB(d) == IsObject(d) /\ d.status = Str(<<"success">>)
MatchesC(d) == IsObject(d) /\ (In("error", d) \/ In("message", d))
\* the body with only the given fields kept
Only(d, fields) ==
    [f \in DOMAIN d |-> IF f \in fields \cup {"type"} THEN d[f] ELSE Absent]

Carries(v) == v.t \notin {"absent", "undefined", "null"}

\* C12: what handleResponse returns is a result record; a successful one
\* carries an output and an exit code and no error, a failed one carries an
\* error.
C12_WellFormed ==
    npc = "done" =>
        /\ ret.t = "object"
        /\ ret.success =>
              Carries(ret.output) /\ Carries(ret.exit_code) /\ ~Carries(ret.error)
        /\ ~ret.success => Carries(ret.error)
-----------------------------------------------------------------------------
(* Properties of the cache key (SpecKey)                                   *)

\* code + engine, the string handed to hash
Hashed(r) == r.code \o EngineChars(r.engine)

\* C20: two requests have the same key exactly when they have the same code
\* and the same engine, and two requests that differ in code or engine hand
\* different strings to hash.
C20_KeyIffSameRequest ==
    keys # <<>> =>
        /\ (keys[1] = keys[2]) <=> (requests[1] = requests[2])
        /\ requests[1] # requests[2] => Hashed(requests[1]) # Hashed(requests[2])

====
